---- MODULE Spec2Model ----
(***************************************************************************)
(* CHIP-8 interpreter and time-travel debugger (janmasrovira/chip-8).      *)
(* The machine (architecture/mod.rs), the decoder (language/mod.rs), the   *)
(* interpreter and the debugger (emulator/mod.rs) as a state machine: the  *)
(* state is the debugger's history of snapshots and its cursor.            *)
(***************************************************************************)
EXTENDS Integers, Sequences, FiniteSets, TLC

VARIABLES history, p, panicked, overflow_checks, channel, sent, diff, running

\* The application around the debugger: the mpsc channel between the input
\* thread and the main loop, the commands sent so far, the diff flag, and
\* whether the main loop is still running
app == <<channel, sent, diff, running>>

vars == <<history, p, panicked, overflow_checks, channel, sent, diff, running>>

\* ------------------------------------------------------------ constants

MEM_SIZE == 4096
CODE_START == 512
NROWS == 32
NCOLS == 64
STACK_SIZE == 16
U8 == 256
U16 == 65536

\* Bound of the model: the longest history the debugger is driven to.
MaxHistory == 18
\* Bound of the model: how many steps forward and back a round trip takes.
MaxRoundTrip == 3

\* ------------------------------------------------------------ base/mod.rs

RECURSIVE Pow(_, _)
Pow(b, e) == IF e = 0 THEN 1 ELSE b * Pow(b, e - 1)

\* Nibble::byte_to_nibbles
byte_to_nibbles(b) == <<b \div 16, b % 16>>

\* mk_un: big-endian pack of a sequence of nibbles
RECURSIVE mk_un(_)
mk_un(bs) ==
    IF Len(bs) = 0 THEN 0
    ELSE Head(bs) * Pow(16, Len(bs) - 1) + mk_un(Tail(bs))

mk_u8(b) == mk_un(b) % U8

\* bit k (0 = least significant) of a byte
Bit(v, k) == (v \div Pow(2, k)) % 2

\* One bit of |, & or ^
BitOp(f, x, y) ==
    IF f = "or" THEN (IF x + y > 0 THEN 1 ELSE 0)
    ELSE IF f = "and" THEN x * y
    ELSE (x + y) % 2

\* A bitwise operator on two bytes, bit by bit from bit k up
RECURSIVE BitFold(_, _, _, _)
BitFold(f, a, b, k) ==
    IF k = 8 THEN 0
    ELSE BitOp(f, Bit(a, k), Bit(b, k)) * Pow(2, k) + BitFold(f, a, b, k + 1)

BitOr8(a, b) == BitFold("or", a, b, 0)
BitAnd8(a, b) == BitFold("and", a, b, 0)
BitXor8(a, b) == BitFold("xor", a, b, 0)

\* ------------------------------------------------------------ language/mod.rs

\* from_bytes taking the low byte first
from_bytes_swapped(bytes) == byte_to_nibbles(bytes[2]) \o byte_to_nibbles(bytes[1])

\* RawInstr::from_bytes: the four nibbles of two bytes
from_bytes(bytes) == byte_to_nibbles(bytes[1]) \o byte_to_nibbles(bytes[2])

\* RawInstr::into_instr: the match arms in source order (first match wins)
into_instr(b) ==
    LET n3 == b[1]
        x == b[2]
        y == b[3]
        n == b[4]
        nnn == mk_un(<<b[2], b[3], b[4]>>)
        kk == mk_u8(<<b[3], b[4]>>)
    IN  IF b = <<0, 0, 14, 0>> THEN [op |-> "Clear"]
        ELSE IF b = <<0, 0, 14, 14>> THEN [op |-> "Ret"]
        ELSE IF n3 = 0 THEN [op |-> "System", addr |-> nnn]
        ELSE IF n3 = 1 THEN [op |-> "Goto", addr |-> nnn]
        ELSE IF n3 = 2 THEN [op |-> "Call", addr |-> nnn]
        ELSE IF n3 = 3 THEN [op |-> "SkipEq", r |-> x, c |-> kk]
        ELSE IF n3 = 4 THEN [op |-> "SkipNEq", r |-> x, c |-> kk]
        ELSE IF n3 = 5 /\ n = 0 THEN [op |-> "SkipEqV", r |-> x, s |-> y]
        ELSE IF n3 = 6 THEN [op |-> "Set", r |-> x, a |-> kk]
        ELSE IF n3 = 7 THEN [op |-> "Incr", r |-> x, a |-> kk]
        ELSE IF n3 = 8 /\ n = 0 THEN [op |-> "Copy", r |-> x, s |-> y]
        ELSE IF n3 = 8 /\ n = 1 THEN [op |-> "BitOr", r |-> x, s |-> y]
        ELSE IF n3 = 8 /\ n = 2 THEN [op |-> "BitAnd", r |-> x, s |-> y]
        ELSE IF n3 = 8 /\ n = 3 THEN [op |-> "BitXOr", r |-> x, s |-> y]
        ELSE IF n3 = 8 /\ n = 4 THEN [op |-> "Add", r |-> x, s |-> y]
        ELSE IF n3 = 8 /\ n = 5 THEN [op |-> "Sub", r |-> x, s |-> y]
        ELSE IF n3 = 8 /\ n = 6 THEN [op |-> "ShiftR", r |-> x]
        ELSE IF n3 = 8 /\ n = 7 THEN [op |-> "Lt", r |-> x, s |-> y]
        ELSE IF n3 = 8 /\ n = 14 THEN [op |-> "ShiftL", r |-> x]
        ELSE IF n3 = 9 /\ n = 0 THEN [op |-> "SkipNEqV", r |-> x, s |-> y]
        ELSE IF n3 = 10 THEN [op |-> "SetI", n |-> nnn]
        ELSE IF n3 = 11 THEN [op |-> "Jump", n |-> nnn]
        ELSE IF n3 = 12 THEN [op |-> "Rand", r |-> x, n |-> kk]
        ELSE IF n3 = 13 THEN [op |-> "Draw", x |-> x, y |-> y, height |-> n]
        ELSE IF n3 = 14 /\ y = 9 /\ n = 14 THEN [op |-> "Pressed", r |-> x]
        ELSE IF n3 = 14 /\ y = 10 /\ n = 1 THEN [op |-> "NotPressed", r |-> x]
        ELSE IF n3 = 15 /\ y = 0 /\ n = 7 THEN [op |-> "GetDelay", r |-> x]
        ELSE IF n3 = 15 /\ y = 0 /\ n = 10 THEN [op |-> "LoadKey", r |-> x]
        ELSE IF n3 = 15 /\ y = 1 /\ n = 5 THEN [op |-> "SetDelayTimer", r |-> x]
        ELSE IF n3 = 15 /\ y = 1 /\ n = 8 THEN [op |-> "SetSoundTimer", r |-> x]
        ELSE IF n3 = 15 /\ y = 1 /\ n = 14 THEN [op |-> "IncrI", r |-> x]
        ELSE IF n3 = 15 /\ y = 2 /\ n = 9 THEN [op |-> "SpriteAddr", r |-> x]
        ELSE IF n3 = 15 /\ y = 3 /\ n = 3 THEN [op |-> "StoreBCD", r |-> x]
        ELSE IF n3 = 15 /\ y = 5 /\ n = 5 THEN [op |-> "RegDump", x |-> x]
        ELSE IF n3 = 15 /\ y = 6 /\ n = 5 THEN [op |-> "RegLoad", x |-> x]
        ELSE [op |-> "Data", b |-> b]

\* ------------------------------------------------------------ architecture/mod.rs

VF == 15

\* Screen::new
Screen_new == [row \in 0..(NROWS - 1) |-> [col \in 0..(NCOLS - 1) |-> FALSE]]

\* Chip8::new
Chip8_new ==
    [ memory |-> [a \in 0..(MEM_SIZE - 1) |-> 0],
      i |-> 0,
      pc |-> CODE_START,
      sp |-> 0,
      delay |-> 0,
      sound |-> 0,
      stack |-> [k \in 0..(STACK_SIZE - 1) |-> 0],
      registers |-> [k \in 0..15 |-> 0],
      screen |-> Screen_new ]

\* ------------------------------------------------------------ emulator/mod.rs

\* The outcome of an operation on a machine: the machine as the operation
\* left it, and the panic that ended it ("none" when it returned).
Ok(chip) == [chip |-> chip, panic |-> "none"]
Panic(chip, kind) == [chip |-> chip, panic |-> kind]

\* draw_bit that ORs the bit into the cell
draw_bit_or(rows, row, col, b) ==
    LET mrow == row % NROWS
        mcol == col % NCOLS
        old == rows[mrow][mcol]
        new == (old \/ b)
    IN  [rows |-> [rows EXCEPT ![mrow][mcol] = new], flag |-> old /\ ~new]

\* draw_bit that drops a pixel whose row or column is past the grid
draw_bit_clip(rows, row, col, b) ==
    IF row >= NROWS \/ col >= NCOLS THEN [rows |-> rows, flag |-> FALSE]
    ELSE LET old == rows[row][col]
             new == (old # b)
         IN  [rows |-> [rows EXCEPT ![row][col] = new], flag |-> old /\ ~new]

\* Screen::draw_bit: XOR b into the cell, both coordinates taken modulo the
\* grid; TRUE when the cell went from 1 to 0
draw_bit(rows, row, col, b) ==
    LET mrow == row % NROWS
        mcol == col % NCOLS
        old == rows[mrow][mcol]
        new == (old # b)
    IN  [rows |-> [rows EXCEPT ![mrow][mcol] = new], flag |-> old /\ ~new]

\* Chip8::rv
rv(chip, r) == chip.registers[r]

\* Chip8::v, as the assignment *self.v(r) = val
set_v(chip, r, val) == [chip EXCEPT !.registers[r] = val]

\* Chip8::pc_incr (pc is at most MEM_SIZE - 2 after a fetch: no u16 overflow)
pc_incr(chip) == [chip EXCEPT !.pc = (chip.pc + 2) % U16]

\* Chip8::read_instr: the slice memory[pc..=pc+1] panics past the end
read_instr(chip) ==
    IF chip.pc + 1 >= MEM_SIZE THEN [instr |-> [op |-> "none"], panic |-> "MemoryRange"]
    ELSE [instr |-> into_instr(from_bytes(<<chip.memory[chip.pc], chip.memory[chip.pc + 1]>>)),
          panic |-> "none"]

\* pop_stack that does not decrement sp
pop_stack_nodec(chip) ==
    IF chip.sp = 0 THEN [chip |-> chip, val |-> 0, panic |-> "StackUnderflow"]
    ELSE [chip |-> chip, val |-> chip.stack[chip.sp - 1], panic |-> "none"]

\* pop_stack whose index wraps around at sp = 0 instead of panicking
pop_stack_wrapping(chip) ==
    LET k == (chip.sp - 1) % STACK_SIZE IN
    [chip |-> [chip EXCEPT !.sp = k], val |-> chip.stack[k], panic |-> "none"]

\* Chip8::pop_stack: sp as usize - 1 panics at sp = 0 (subtract overflow with
\* overflow checks, index out of bounds without), before any write
pop_stack(chip) ==
    IF chip.sp = 0 THEN [chip |-> chip, val |-> 0, panic |-> "StackUnderflow"]
    ELSE [chip |-> [chip EXCEPT !.sp = chip.sp - 1],
          val |-> chip.stack[chip.sp - 1],
          panic |-> "none"]

\* push_stack that always writes the bottom slot of the stack
push_stack_bottom(chip, val) ==
    IF chip.sp >= STACK_SIZE THEN Panic(chip, "StackOverflow")
    ELSE Ok([chip EXCEPT !.stack[0] = val, !.sp = chip.sp + 1])

\* Chip8::push_stack: stack[sp] panics at sp = 16, before any write
push_stack(chip, val) ==
    IF chip.sp >= STACK_SIZE THEN Panic(chip, "StackOverflow")
    ELSE Ok([chip EXCEPT !.stack[chip.sp] = val, !.sp = chip.sp + 1])

\* A skip that fires on the negated predicate
skip_if_inverted(chip, cond) == IF cond THEN pc_incr(chip) ELSE pc_incr(pc_incr(chip))

\* The skip instructions: pc_incr once more when the predicate holds
skip_if(chip, cond) == IF cond THEN pc_incr(pc_incr(chip)) ELSE pc_incr(chip)

\* Draw's inner loop over the 8 bits of sprite byte i, most significant
\* first; collision |= draw_bit(..)
RECURSIVE draw_line(_, _, _, _, _, _, _)
draw_line(chip, rows, collision, i0, j0, i, j) ==
    IF j = 8 THEN [rows |-> rows, collision |-> collision]
    ELSE LET line == chip.memory[chip.i + i]
             d == draw_bit(rows, i0 + i, j0 + j, Bit(line, 7 - j) = 1)
         IN  IF d.flag THEN draw_line(chip, d.rows, TRUE, i0, j0, i, j + 1)
             ELSE draw_line(chip, d.rows, collision, i0, j0, i, j + 1)

\* Draw's outer loop over the sprite bytes memory[i..i+height]
RECURSIVE draw_loop(_, _, _, _, _, _, _)
draw_loop(chip, rows, collision, i0, j0, height, i) ==
    IF i = height THEN [rows |-> rows, collision |-> collision]
    ELSE LET d == draw_line(chip, rows, collision, i0, j0, i, 0)
         IN  IF d.collision THEN draw_loop(chip, d.rows, TRUE, i0, j0, height, i + 1)
             ELSE draw_loop(chip, d.rows, FALSE, i0, j0, height, i + 1)

\* RegDump's loop stopping one register short
RECURSIVE reg_dump_loop_short(_, _, _)
reg_dump_loop_short(chip, n, k) ==
    IF k >= n THEN chip
    ELSE reg_dump_loop_short([chip EXCEPT !.memory[k] = rv(chip, k)], n, k + 1)

\* RegDump's loop: memory[i] = V[i] for i in 0..=n
RECURSIVE reg_dump_loop(_, _, _)
reg_dump_loop(chip, n, k) ==
    IF k > n THEN chip
    ELSE reg_dump_loop([chip EXCEPT !.memory[k] = rv(chip, k)], n, k + 1)

\* RegLoad's loop: V[i] = memory[i] for i in 0..=n
RECURSIVE reg_load_loop(_, _, _)
reg_load_loop(chip, n, k) ==
    IF k > n THEN chip
    ELSE reg_load_loop(set_v(chip, k, chip.memory[k]), n, k + 1)

\* StoreBCD with the units first and the hundreds last
store_bcd_swapped(chip, r) ==
    LET v == rv(chip, r)
        d1 == v % 10
        d10 == (v \div 10) % 10
        d100 == ((v \div 10) \div 10) % 10
        i == chip.i
        c1 == [chip EXCEPT !.memory[i] = d1]
        c2 == [c1 EXCEPT !.memory[i + 1] = d10]
        c3 == [c2 EXCEPT !.memory[i + 2] = d100]
    IN  IF i >= MEM_SIZE THEN Panic(chip, "MemoryRange")
        ELSE IF i + 1 >= MEM_SIZE THEN Panic(c1, "MemoryRange")
        ELSE IF i + 2 >= MEM_SIZE THEN Panic(c2, "MemoryRange")
        ELSE Ok(pc_incr(c3))

\* StoreBCD writing its digits one byte further, at memory[i+1..i+3]
store_bcd_shifted(chip, r) ==
    LET v == rv(chip, r)
        i == chip.i + 1
        c3 == [chip EXCEPT !.memory[i] = (v \div 100) % 10,
                           !.memory[i + 1] = (v \div 10) % 10,
                           !.memory[i + 2] = v % 10]
    IN  IF i + 2 >= MEM_SIZE THEN Panic(chip, "MemoryRange")
        ELSE Ok(pc_incr(c3))

\* StoreBCD: three indexed writes, each panicking past the end of memory
store_bcd(chip, r) ==
    LET v == rv(chip, r)
        d1 == v % 10
        d10 == (v \div 10) % 10
        d100 == ((v \div 10) \div 10) % 10
        i == chip.i
        c1 == [chip EXCEPT !.memory[i] = d100]
        c2 == [c1 EXCEPT !.memory[i + 1] = d10]
        c3 == [c2 EXCEPT !.memory[i + 2] = d1]
    IN  IF i >= MEM_SIZE THEN Panic(chip, "MemoryRange")
        ELSE IF i + 1 >= MEM_SIZE THEN Panic(c1, "MemoryRange")
        ELSE IF i + 2 >= MEM_SIZE THEN Panic(c2, "MemoryRange")
        ELSE Ok(pc_incr(c3))

\* Ret without the pc_incr after the pop
exec_ret_noincr(chip) ==
    LET q == pop_stack(chip) IN
    IF q.panic # "none" THEN Panic(q.chip, q.panic)
    ELSE Ok([q.chip EXCEPT !.pc = q.val])

\* run_instr, arm Ret: pc = pop_stack(), then pc_incr
exec_ret(chip) ==
    LET q == pop_stack(chip) IN
    IF q.panic # "none" THEN Panic(q.chip, q.panic)
    ELSE Ok(pc_incr([q.chip EXCEPT !.pc = q.val]))

\* Call that pushes the address of the next instruction
exec_call_pushes_next(chip, addr) ==
    LET q == push_stack(chip, chip.pc + 2) IN
    IF q.panic # "none" THEN q
    ELSE Ok([q.chip EXCEPT !.pc = addr])

\* run_instr, arm Call: push_stack(pc), then pc = addr
exec_call(chip, addr) ==
    LET q == push_stack(chip, chip.pc) IN
    IF q.panic # "none" THEN q
    ELSE Ok([q.chip EXCEPT !.pc = addr])

\* Jump followed by a pc_incr
exec_jump_incr(chip, n) == Ok(pc_incr([chip EXCEPT !.pc = rv(chip, 0) + n]))

\* run_instr, arm Jump: pc = V0 + n
exec_jump(chip, n) == Ok([chip EXCEPT !.pc = rv(chip, 0) + n])

\* Add whose carry is set only when the sum exceeds 256
exec_add_late_carry(chip, r, s) ==
    LET sum == rv(chip, r) + rv(chip, s)
        overflow == IF sum > U8 THEN 1 ELSE 0
    IN  Ok(pc_incr(set_v(set_v(chip, r, sum % U8), VF, overflow)))

\* run_instr, arm Add: overflowing_add; V[r] written first, VF last
exec_add(chip, r, s) ==
    LET sum == rv(chip, r) + rv(chip, s)
        overflow == IF sum >= U8 THEN 1 ELSE 0
    IN  Ok(pc_incr(set_v(set_v(chip, r, sum % U8), VF, overflow)))

\* run_instr, arm ShiftR: the flag of overflowing_shr(1) tells whether the
\* shift amount reached the bit width, so it is false; VF written first,
\* V[r] last
exec_shift_r(chip, r) ==
    LET n == rv(chip, r) \div 2
        overflow == 0
    IN  Ok(pc_incr(set_v(set_v(chip, VF, overflow), r, n)))

\* Sub that borrows also when the operands are equal
exec_sub_borrow_eq(chip, r, s) ==
    LET a == rv(chip, r)
        b == rv(chip, s)
        borrow == a <= b
    IN  Ok(pc_incr(set_v(set_v(chip, r, (a - b) % U8), VF, IF borrow THEN 0 ELSE 1)))

\* run_instr, arm Sub: overflowing_sub; V[r] written first, VF = !borrow last
exec_sub(chip, r, s) ==
    LET a == rv(chip, r)
        b == rv(chip, s)
        borrow == a < b
    IN  Ok(pc_incr(set_v(set_v(chip, r, (a - b) % U8), VF, IF borrow THEN 0 ELSE 1)))

\* run_instr, arm Lt: V[r] = V[s] - V[r]; VF = !borrow last
exec_lt(chip, r, s) ==
    LET a == rv(chip, s)
        b == rv(chip, r)
        borrow == a < b
    IN  Ok(pc_incr(set_v(set_v(chip, r, (a - b) % U8), VF, IF borrow THEN 0 ELSE 1)))

\* run_instr, arm ShiftL: overflowing_shl(1), whose flag is false as for
\* ShiftR; VF written first, V[r] last
exec_shift_l(chip, r) ==
    LET n == (rv(chip, r) * 2) % U8
        overflow == 0
    IN  Ok(pc_incr(set_v(set_v(chip, VF, overflow), r, n)))

\* run_instr, arm Draw: the slice memory[i..i+height] panics past the end,
\* before any draw; VF = collision
exec_draw(chip, x, y, height) ==
    IF chip.i + height > MEM_SIZE THEN Panic(chip, "MemoryRange")
    ELSE LET d == draw_loop(chip, chip.screen, FALSE, rv(chip, y), rv(chip, x), height, 0)
         IN  Ok(pc_incr(set_v([chip EXCEPT !.screen = d.rows], VF,
                              IF d.collision THEN 1 ELSE 0)))

\* IncrI that adds V[r] twice
exec_incr_i_twice(chip, r, oc) ==
    LET sum == chip.i + 2 * rv(chip, r) IN
    IF sum >= U16 /\ oc THEN Panic(chip, "ArithmeticOverflow")
    ELSE Ok(pc_incr([chip EXCEPT !.i = sum % U16]))

\* run_instr, arm IncrI: u16 addition, which panics on overflow with overflow
\* checks and wraps without
exec_incr_i(chip, r, oc) ==
    LET sum == chip.i + rv(chip, r) IN
    IF sum >= U16 /\ oc THEN Panic(chip, "ArithmeticOverflow")
    ELSE Ok(pc_incr([chip EXCEPT !.i = sum % U16]))

\* Rand that stores the random byte unmasked
exec_rand_unmasked(chip, r, n, rnd) == Ok(pc_incr(set_v(chip, r, rnd)))

\* run_instr, arm Rand: V[r] = n & rand::random()
exec_rand(chip, r, n, rnd) == Ok(pc_incr(set_v(chip, r, BitAnd8(n, rnd))))

\* Incr that adds the constant twice
exec_incr_twice(chip, r, a) == Ok(pc_incr(set_v(chip, r, (rv(chip, r) + 2 * a) % U8)))

\* Incr that also writes the carry to VF
exec_incr_carry(chip, r, a) ==
    LET sum == rv(chip, r) + a
    IN  Ok(pc_incr(set_v(set_v(chip, r, sum % U8), VF, IF sum >= U8 THEN 1 ELSE 0)))

\* run_instr, arm Incr: wrapping addition of the constant, no flag
exec_incr(chip, r, a) == Ok(pc_incr(set_v(chip, r, (rv(chip, r) + a) % U8)))

\* Chip8::run_instr's arm for the decoded instruction ins. rnd is the byte
\* rand::random drew; oc tells whether the build checks integer overflow.
exec_instr(chip, ins, rnd, oc) ==
    LET op == ins.op IN
    IF op = "System" THEN Ok(pc_incr(chip))
    ELSE IF op = "Clear" THEN Ok(pc_incr([chip EXCEPT !.screen = Screen_new]))
    ELSE IF op = "Ret" THEN exec_ret(chip)
    ELSE IF op = "Goto" THEN Ok([chip EXCEPT !.pc = ins.addr])
    ELSE IF op = "Call" THEN exec_call(chip, ins.addr)
    ELSE IF op = "SkipEq" THEN Ok(skip_if(chip, rv(chip, ins.r) = ins.c))
    ELSE IF op = "SkipNEq" THEN Ok(skip_if(chip, rv(chip, ins.r) # ins.c))
    ELSE IF op = "SkipEqV" THEN Ok(skip_if(chip, rv(chip, ins.r) = rv(chip, ins.s)))
    ELSE IF op = "Set" THEN Ok(pc_incr(set_v(chip, ins.r, ins.a)))
    ELSE IF op = "Incr" THEN exec_incr(chip, ins.r, ins.a)
    ELSE IF op = "Copy" THEN Ok(pc_incr(set_v(chip, ins.r, rv(chip, ins.s))))
    ELSE IF op = "BitOr" THEN
        Ok(pc_incr(set_v(chip, ins.r, BitOr8(rv(chip, ins.r), rv(chip, ins.s)))))
    ELSE IF op = "BitAnd" THEN
        Ok(pc_incr(set_v(chip, ins.r, BitAnd8(rv(chip, ins.r), rv(chip, ins.s)))))
    ELSE IF op = "BitXOr" THEN
        Ok(pc_incr(set_v(chip, ins.r, BitXor8(rv(chip, ins.r), rv(chip, ins.s)))))
    ELSE IF op = "Add" THEN exec_add(chip, ins.r, ins.s)
    ELSE IF op = "ShiftR" THEN exec_shift_r(chip, ins.r)
    ELSE IF op = "Sub" THEN exec_sub(chip, ins.r, ins.s)
    ELSE IF op = "Lt" THEN exec_lt(chip, ins.r, ins.s)
    ELSE IF op = "ShiftL" THEN exec_shift_l(chip, ins.r)
    ELSE IF op = "SkipNEqV" THEN Ok(skip_if(chip, rv(chip, ins.r) # rv(chip, ins.s)))
    ELSE IF op = "SetI" THEN Ok(pc_incr([chip EXCEPT !.i = ins.n]))
    ELSE IF op = "Jump" THEN exec_jump(chip, ins.n)
    ELSE IF op = "Rand" THEN exec_rand(chip, ins.r, ins.n, rnd)
    ELSE IF op = "Draw" THEN exec_draw(chip, ins.x, ins.y, ins.height)
    ELSE IF op \in {"Pressed", "NotPressed", "GetDelay", "LoadKey",
                    "SetDelayTimer", "SetSoundTimer", "SpriteAddr"} THEN
        Panic(chip, "Unimplemented")
    ELSE IF op = "IncrI" THEN exec_incr_i(chip, ins.r, oc)
    ELSE IF op = "StoreBCD" THEN store_bcd(chip, ins.r)
    ELSE IF op = "RegDump" THEN Ok(pc_incr(reg_dump_loop(chip, ins.x, 0)))
    ELSE IF op = "RegLoad" THEN Ok(pc_incr(reg_load_loop(chip, ins.x, 0)))
    ELSE Panic(chip, "BadInstruction")

\* Chip8::run_instr: fetch, decode, execute
run_instr(chip, rnd, oc) ==
    LET f == read_instr(chip) IN
    IF f.panic # "none" THEN Panic(chip, f.panic)
    ELSE exec_instr(chip, f.instr, rnd, oc)

\* Chip8::load_memory on the bytes read from the file
load_memory(chip, v) ==
    LET len == Len(v) IN
    IF len >= MEM_SIZE - CODE_START THEN Panic(chip, "LoadError")
    ELSE Ok([chip EXCEPT !.memory =
                [a \in 0..(MEM_SIZE - 1) |->
                    IF a >= CODE_START /\ a < CODE_START + len
                    THEN v[a - CODE_START + 1] ELSE chip.memory[a]]])

\* ------------------------------------------------------------ Debugger

\* Debugger::new
Debugger_new(chip) == [history |-> <<chip>>, p |-> 0]

\* Debugger::peek (history is indexed from 1 here, from 0 in the source)
peek(d) == d.history[d.p + 1]

\* step_back without its guard on the cursor
step_back_unguarded(d) ==
    [history |-> d.history, p |-> d.p - 1, possible |-> d.p > 0]

\* step_back that also drops the snapshots after the cursor
step_back_truncating(d) ==
    LET possible == d.p > 0 IN
    [history |-> IF possible THEN SubSeq(d.history, 1, d.p) ELSE d.history,
     p |-> IF possible THEN d.p - 1 ELSE d.p,
     possible |-> possible]

\* Debugger::step_back
step_back(d) ==
    LET possible == d.p > 0 IN
    [history |-> d.history,
     p |-> IF possible THEN d.p - 1 ELSE d.p,
     possible |-> possible]

\* step_forward that moves the cursor only when it appends
step_forward_sticky(d, rnd, oc) ==
    IF d.p = Len(d.history) - 1 THEN
        LET next == run_instr(d.history[Len(d.history)], rnd, oc) IN
        IF next.panic # "none"
        THEN [history |-> d.history, p |-> d.p, panic |-> next.panic]
        ELSE [history |-> Append(d.history, next.chip), p |-> d.p + 1, panic |-> "none"]
    ELSE [history |-> d.history, p |-> d.p, panic |-> "none"]

\* step_forward that appends the clone without running it
step_forward_norun(d, rnd, oc) ==
    IF d.p = Len(d.history) - 1 THEN
        [history |-> Append(d.history, d.history[Len(d.history)]),
         p |-> d.p + 1, panic |-> "none"]
    ELSE [history |-> d.history, p |-> d.p + 1, panic |-> "none"]

\* step_forward that executes the shown snapshot again when the cursor is
\* below the last index, and overwrites the snapshot stored after it
step_forward_rerun(d, rnd, oc) ==
    LET next == run_instr(peek(d), rnd, oc) IN
    IF next.panic # "none"
    THEN [history |-> d.history, p |-> d.p, panic |-> next.panic]
    ELSE IF d.p = Len(d.history) - 1
    THEN [history |-> Append(d.history, next.chip), p |-> d.p + 1, panic |-> "none"]
    ELSE [history |-> [d.history EXCEPT ![d.p + 2] = next.chip],
          p |-> d.p + 1, panic |-> "none"]

\* Debugger::step_forward; a panic of run_instr unwinds out of it before the
\* push and before the cursor moves
step_forward(d, rnd, oc) ==
    IF d.p = Len(d.history) - 1 THEN
        LET next == run_instr(d.history[Len(d.history)], rnd, oc) IN
        IF next.panic # "none"
        THEN [history |-> d.history, p |-> d.p, panic |-> next.panic]
        ELSE [history |-> Append(d.history, next.chip), p |-> d.p + 1, panic |-> "none"]
    ELSE [history |-> d.history, p |-> d.p + 1, panic |-> "none"]

\* ------------------------------------------------------------ programs

\* One instruction word from its four nibbles, as two big-endian bytes
W(a, b, c, d) == <<a * 16 + b, c * 16 + d>>

\* 6000 7001 3005 1202 1208: count V0 up to 5, then loop at 0x208
ProgLoop == W(6,0,0,0) \o W(7,0,0,1) \o W(3,0,0,5) \o W(1,2,0,2) \o W(1,2,0,8)
\* 2206 00E0 1204 00EE: call, return, clear, then loop at 0x204
ProgCallRet == W(2,2,0,6) \o W(0,0,14,0) \o W(1,2,0,4) \o W(0,0,14,14)
\* 2204 00EE 00EE: call, return, then return on an empty stack
ProgRetEmpty == W(2,2,0,4) \o W(0,0,14,14) \o W(0,0,14,14)
\* 2200: a subroutine that calls itself
ProgRecurse == W(2,2,0,0)
\* 2204 1202 2208 00EE 00EE: two nested calls and their returns
ProgNested == W(2,2,0,4) \o W(1,2,0,2) \o W(2,2,0,8) \o W(0,0,14,14) \o W(0,0,14,14)
\* 1001: jump to an odd address below the program area
ProgGotoOdd == W(1,0,0,1)
\* 1FFE: jump to the last instruction slot of memory
ProgGotoEnd == W(1,15,15,14)
\* 60FF BFFF: jump to V0 + 0xFFF
ProgJump == W(6,0,15,15) \o W(11,15,15,15)
\* 6001 E09E: a keypad test
ProgKeypad == W(6,0,0,1) \o W(14,0,9,14)
\* 6001 5011: a word outside the decoding table
ProgData == W(6,0,0,1) \o W(5,0,1,1)
\* the four skips, each once firing and once not
ProgSkips ==
    W(6,0,0,5) \o W(6,1,0,5) \o W(5,0,1,0) \o W(0,0,0,0) \o W(9,0,1,0) \o
    W(4,0,0,5) \o W(3,0,0,5) \o W(0,0,0,0) \o W(4,0,0,6) \o W(0,0,0,0) \o
    W(3,0,0,6) \o W(6,1,0,7) \o W(9,0,1,0) \o W(0,0,0,0) \o W(5,0,1,0) \o
    W(1,2,1,14)
\* C001 C101 8014 1206: two random bits, added
ProgRand == W(12,0,0,1) \o W(12,1,0,1) \o W(8,0,1,4) \o W(1,2,0,6)
\* arithmetic, shifts, bitwise operations, I, BCD, register dump and load
ProgArith ==
    W(6,0,15,15) \o W(6,1,0,1) \o W(8,0,1,4) \o W(8,0,1,5) \o W(8,0,1,7) \o
    W(8,0,1,6) \o W(8,0,1,14) \o W(8,0,1,0) \o W(8,0,1,1) \o W(8,0,1,2) \o
    W(8,0,1,3) \o W(7,0,0,5) \o W(10,3,0,0) \o W(15,0,1,14) \o W(15,0,3,3) \o
    W(15,1,5,5) \o W(15,1,6,5)
\* A20E 603E 611F D012 D012 00E0 120C, sprite FF 81: draw across both edges
ProgDraw ==
    W(10,2,0,14) \o W(6,0,3,14) \o W(6,1,1,15) \o W(13,0,1,2) \o W(13,0,1,2) \o
    W(0,0,14,0) \o W(1,2,0,12) \o <<255, 129>>

Programs ==
    { ProgLoop, ProgCallRet, ProgRetEmpty, ProgRecurse, ProgNested, ProgGotoOdd, ProgGotoEnd,
      ProgJump, ProgKeypad, ProgData, ProgSkips, ProgRand, ProgArith, ProgDraw }

\* ------------------------------------------------------------ the system

\* App::new and App::run before the loop: an empty channel, nothing sent, the
\* diff flag off, the loop running
AppInit ==
    /\ channel = <<>>
    /\ sent = <<>>
    /\ diff = FALSE
    /\ running = TRUE

\* main: Chip8::new, load_memory, Debugger::new
Init ==
    /\ \E prog \in Programs :
          LET d == Debugger_new(load_memory(Chip8_new, prog).chip)
          IN  history = d.history /\ p = d.p
    /\ panicked = "none"
    /\ overflow_checks \in BOOLEAN
    /\ AppInit

dbg == [history |-> history, p |-> p]

\* The bytes rand::random can draw in a step_forward call: it is called only
\* by the Rand arm of run_instr, on the last snapshot
random_draws(d) ==
    LET last == d.history[Len(d.history)]
        f == read_instr(last)
    IN  IF d.p = Len(d.history) - 1 /\ f.panic = "none" /\ f.instr.op = "Rand"
        THEN 0..(U8 - 1) ELSE {0}

\* A step_forward call; a panic ends the process
StepForward ==
    /\ panicked = "none"
    /\ (p = Len(history) - 1) => (Len(history) < MaxHistory)
    /\ \E rnd \in random_draws(dbg) :
          LET r == step_forward(dbg, rnd, overflow_checks)
          IN  history' = r.history /\ p' = r.p /\ panicked' = r.panic
    /\ UNCHANGED <<overflow_checks, app>>

\* A step_back call
StepBack ==
    /\ panicked = "none"
    /\ LET r == step_back(dbg)
       IN  history' = r.history /\ p' = r.p
    /\ UNCHANGED <<panicked, overflow_checks, app>>

Next == StepForward \/ StepBack

Spec == Init /\ [][Next]_vars

\* ------------------------------------------------------------ claims: debugger

\* The instruction a machine is about to execute ("none" past the end of memory)
fetched(chip) == read_instr(chip).instr

\* The bytes rand::random can draw when chip executes one step
rand_bytes(chip) ==
    IF read_instr(chip).panic = "none" /\ fetched(chip).op = "Rand"
    THEN 0..(U8 - 1) ELSE {0}

\* n step_forward calls in a row, stopping at the first panic
RECURSIVE ForwardTimes(_, _, _, _)
ForwardTimes(d, n, rnd, oc) ==
    IF n = 0 THEN [history |-> d.history, p |-> d.p, panic |-> "none"]
    ELSE LET r == step_forward(d, rnd, oc) IN
         IF r.panic # "none" THEN r
         ELSE ForwardTimes([history |-> r.history, p |-> r.p], n - 1, rnd, oc)

\* n step_back calls in a row
RECURSIVE BackTimes(_, _)
BackTimes(d, n) ==
    IF n = 0 THEN [history |-> d.history, p |-> d.p]
    ELSE LET r == step_back(d) IN BackTimes([history |-> r.history, p |-> r.p], n - 1)

\* Random bytes tried for the steps of a round trip
RoundTripDraws == {0, 1, 255}

\* C1: from every debugger state with cursor c, n successful step_forward
\* calls followed by n step_back calls leave the cursor at c and peek()
\* equal, field by field, to the snapshot visible before.
C1_RoundTrip ==
    panicked = "none" =>
        \A n \in 0..MaxRoundTrip : \A rnd \in RoundTripDraws :
            LET f == ForwardTimes(dbg, n, rnd, overflow_checks) IN
            f.panic = "none" =>
                LET b == BackTimes(f, n) IN
                b.p = p /\ peek(b) = peek(dbg)

\* C1 witness: the cursor is inside the history after real forward and back
\* steps, and a full round trip from here both replays and appends snapshots.
C1_Witness ==
    /\ panicked = "none"
    /\ p >= 1
    /\ p < Len(history) - 1
    /\ LET f == ForwardTimes(dbg, MaxRoundTrip, 0, overflow_checks)
       IN  f.panic = "none" /\ Len(f.history) > Len(history)

\* C2: every snapshot of the history but the first is one run_instr step
\* applied to a copy of the snapshot before it.
C2_HistoryChain ==
    \A k \in 1..(Len(history) - 1) :
        \E rnd \in rand_bytes(history[k]) :
            LET r == run_instr(history[k], rnd, overflow_checks)
            IN  r.panic = "none" /\ r.chip = history[k + 1]

\* C2 witness: step_forward has just appended a snapshot that differs from
\* the one before it, and the cursor shows it.
C2_Witness ==
    /\ Len(history) >= 3
    /\ p = Len(history) - 1
    /\ peek(dbg) # history[p]

\* C3: the history is never empty and the cursor stays within 0..len-1.
C3_CursorInRange ==
    /\ Len(history) >= 1
    /\ p \in 0..(Len(history) - 1)

\* C3 witness: the cursor has come back to index 0 of a grown history.
C3_Witness ==
    /\ Len(history) >= 3
    /\ p = 0

\* C4: the history is append-only: no step shortens it or changes a snapshot
\* already in it, and step_back leaves it untouched.
C4_AppendOnly ==
    [][ /\ Len(history') >= Len(history)
        /\ \A k \in 1..Len(history) : history'[k] = history[k]
        /\ (p' < p => history' = history) ]_vars

\* C4 witness: the cursor was stepped back below the end of a grown history,
\* which is still there in full.
C4_Witness ==
    /\ Len(history) >= 4
    /\ p = 1

\* The step_forward call from this state runs an instruction, and it fails
StepFails ==
    /\ panicked = "none"
    /\ p = Len(history) - 1
    /\ \E rnd \in random_draws(dbg) :
          run_instr(history[Len(history)], rnd, overflow_checks).panic # "none"

\* C5: when step_forward is called at the last index and the step fails, the
\* failure comes back as a value, the process goes on, and the history
\* length and the cursor are what they were.
C5_FailureIsValue ==
    [][ (StepFails /\ StepForward) =>
            /\ panicked' = "none"
            /\ Len(history') = Len(history)
            /\ p' = p ]_vars

\* ------------------------------------------------------------ claims: control flow

\* The steps the history records: snapshot k ran one instruction and became
\* snapshot k + 1
Steps == 1..(Len(history) - 1)

\* The largest value pc can take: Jump's V0 + nnn
PC_MAX == (U8 - 1) + (MEM_SIZE - 1)

\* C6 as stated: in every reachable machine state PC is even and
\* 0x200 <= PC <= 0xFFE.
C6_PcEvenInRange ==
    \A k \in 1..Len(history) :
        /\ history[k].pc % 2 = 0
        /\ history[k].pc >= CODE_START
        /\ history[k].pc <= MEM_SIZE - 2

\* C6 amended: in every reachable machine state 0 <= PC <= 0xFF + 0xFFF;
\* nothing keeps PC even or inside 0x200..0xFFE.
C6_PcBounded ==
    \A k \in 1..Len(history) : history[k].pc \in 0..PC_MAX

\* C6 witness: a Jump has taken PC to the bound.
C6_Witness ==
    \E k \in Steps :
        /\ fetched(history[k]).op = "Jump"
        /\ history[k + 1].pc = PC_MAX

\* C7: 0 <= SP <= 16 in every reachable machine state; Call adds 1 to SP,
\* Ret subtracts 1, and no other instruction changes SP or the stack array.
C7_StackPointer ==
    /\ \A k \in 1..Len(history) : history[k].sp \in 0..STACK_SIZE
    /\ \A k \in Steps :
          LET a == history[k]
              b == history[k + 1]
              op == fetched(a).op
          IN  /\ op = "Call" => b.sp = a.sp + 1
              /\ op = "Ret" => b.sp = a.sp - 1
              /\ op \notin {"Call", "Ret"} => (b.sp = a.sp /\ b.stack = a.stack)

\* C7 witness: sixteen nested calls have filled the stack.
C7_Witness ==
    \E k \in Steps :
        /\ fetched(history[k]).op = "Call"
        /\ history[k + 1].sp = STACK_SIZE

\* C8: in every reachable machine state, Call succeeds when SP < 16 and
\* fails with a stack overflow when SP = 16, Ret fails with a stack underflow
\* when SP = 0, and a failing Call or Ret leaves the machine as it was.
C8_StackBounds ==
    \A k \in 1..Len(history) :
        LET c == history[k]
            op == fetched(c).op
            r == run_instr(c, 0, overflow_checks)
        IN  /\ (op = "Call" /\ c.sp < STACK_SIZE) => r.panic = "none"
            /\ (op = "Call" /\ c.sp = STACK_SIZE) =>
                   (r.panic = "StackOverflow" /\ r.chip = c)
            /\ (op = "Ret" /\ c.sp = 0) =>
                   (r.panic = "StackUnderflow" /\ r.chip = c)
            /\ (op = "Ret" /\ c.sp > 0) => r.panic = "none"

\* C8 witness: sixteen nested calls have succeeded and the seventeenth has
\* failed.
C8_Witness ==
    /\ panicked = "StackOverflow"
    /\ history[Len(history)].sp = STACK_SIZE
    /\ Len(history) = STACK_SIZE + 1

\* C9 as stated: Call at address a pushes a + 2, and Ret sets PC to the
\* popped value with no further + 2.
C9_PushesNext ==
    \A k \in Steps :
        LET a == history[k]
            b == history[k + 1]
            ins == fetched(a)
        IN  /\ ins.op = "Call" =>
                (b.pc = ins.addr /\ b.sp = a.sp + 1 /\ b.stack[a.sp] = a.pc + 2)
            /\ ins.op = "Ret" =>
                (b.pc = a.stack[a.sp - 1] /\ b.sp = a.sp - 1)

\* C9 amended: Call at address a with SP = s leaves PC = nnn, SP = s + 1 and
\* stack[s] = a, the address of the Call itself; Ret sets PC to the popped
\* value plus 2 and SP to s.
C9_PushesSelf ==
    \A k \in Steps :
        LET a == history[k]
            b == history[k + 1]
            ins == fetched(a)
        IN  /\ ins.op = "Call" =>
                (b.pc = ins.addr /\ b.sp = a.sp + 1 /\ b.stack[a.sp] = a.pc)
            /\ ins.op = "Ret" =>
                (b.pc = a.stack[a.sp - 1] + 2 /\ b.sp = a.sp - 1)

\* C9 witness: a Call has been executed and the Ret after it too.
C9_Witness ==
    \E k \in Steps :
        /\ k + 1 \in Steps
        /\ fetched(history[k]).op = "Call"
        /\ fetched(history[k + 1]).op = "Ret"
        /\ history[k + 2].pc = history[k].pc + 2

\* The predicate of a skip instruction on a machine
skip_fires(chip, ins) ==
    IF ins.op = "SkipEq" THEN rv(chip, ins.r) = ins.c
    ELSE IF ins.op = "SkipNEq" THEN rv(chip, ins.r) # ins.c
    ELSE IF ins.op = "SkipEqV" THEN rv(chip, ins.r) = rv(chip, ins.s)
    ELSE rv(chip, ins.r) # rv(chip, ins.s)

Skips == {"SkipEq", "SkipNEq", "SkipEqV", "SkipNEqV"}

\* What C10 says of the instructions it names: Goto, Jump and Call write
\* PC and add nothing, a skip adds 4 when its predicate holds and 2 otherwise
PcOfNamed(a, b, ins) ==
    /\ ins.op = "Goto" => b.pc = ins.addr
    /\ ins.op = "Jump" => b.pc = rv(a, 0) + ins.n
    /\ ins.op = "Call" => b.pc = ins.addr
    /\ ins.op \in Skips =>
          b.pc = IF skip_fires(a, ins) THEN a.pc + 4 ELSE a.pc + 2

\* C10 as stated: every successful instruction other than Goto, Jump, Call
\* and the skips, Ret among them, ends with PC = a + 2.
C10_OthersAdvance ==
    \A k \in Steps :
        LET a == history[k]
            b == history[k + 1]
            ins == fetched(a)
        IN  /\ PcOfNamed(a, b, ins)
            /\ ins.op \notin ({"Goto", "Jump", "Call"} \cup Skips) => b.pc = a.pc + 2

\* C10 amended: as stated, except that Ret ends with PC = popped value + 2;
\* every instruction other than Goto, Jump, Call, Ret and the skips ends
\* with PC = a + 2.
C10_PcUpdate ==
    \A k \in Steps :
        LET a == history[k]
            b == history[k + 1]
            ins == fetched(a)
        IN  /\ PcOfNamed(a, b, ins)
            /\ ins.op = "Ret" => b.pc = a.stack[a.sp - 1] + 2
            /\ ins.op \notin ({"Goto", "Jump", "Call", "Ret"} \cup Skips) =>
                  b.pc = a.pc + 2

\* C10 witness: one skip has fired and another has not.
C10_Witness ==
    /\ \E k \in Steps : /\ fetched(history[k]).op \in Skips
                        /\ history[k + 1].pc = history[k].pc + 4
    /\ \E k \in Steps : /\ fetched(history[k]).op \in Skips
                        /\ history[k + 1].pc = history[k].pc + 2

\* ------------------------------------------------------------ claims: arithmetic

\* Bound of the model: how many instructions an arithmetic program runs.
AluSteps == 3

\* Register values and register names the arithmetic programs are built from
ByteSample == {0, 1, 128, 255}
RegSample == {0, 1, VF}

\* 6xaa 6ybb 8xyn: set V[x] and V[y], then one 8xyn instruction
ProgAlu(n, x, y, a, b) ==
    W(6, x, a \div 16, a % 16) \o W(6, y, b \div 16, b % 16) \o W(8, x, y, n)

AluPrograms ==
    { ProgAlu(n, x, y, a, b) :
        n \in {4, 5, 6, 7, 14}, x \in RegSample, y \in RegSample,
        a \in ByteSample, b \in ByteSample }

\* main on one program of a set: Chip8::new, load_memory, Debugger::new
InitOf(progs) ==
    /\ \E prog \in progs :
          LET d == Debugger_new(load_memory(Chip8_new, prog).chip)
          IN  history = d.history /\ p = d.p
    /\ panicked = "none"
    /\ overflow_checks \in BOOLEAN
    /\ AppInit

InitAlu == InitOf(AluPrograms)

\* step_forward calls until the arithmetic program has run
AluNext == Len(history) <= AluSteps /\ StepForward

SpecAlu == InitAlu /\ [][AluNext]_vars

\* The steps of the history that executed instruction op
StepsOf(op) == { k \in Steps : fetched(history[k]).op = op }

\* C11: Add{x,y} with x # VF leaves V[x] = (V[x] + V[y]) mod 256 and VF = 1
\* exactly when the sum of the old values is at least 256, else VF = 0.
C11_Add ==
    \A k \in StepsOf("Add") :
        LET a == history[k]
            b == history[k + 1]
            ins == fetched(a)
            sum == rv(a, ins.r) + rv(a, ins.s)
        IN  ins.r # VF =>
                /\ rv(b, ins.r) = sum % 256
                /\ rv(b, VF) = (IF sum >= 256 THEN 1 ELSE 0)

\* C11 witness: 0xFF + 0x01 has been added into a register other than VF.
C11_Witness ==
    \E k \in StepsOf("Add") :
        /\ fetched(history[k]).r # VF
        /\ rv(history[k], fetched(history[k]).r) = 255
        /\ rv(history[k], fetched(history[k]).s) = 1
        /\ rv(history[k + 1], fetched(history[k]).r) = 0

EjectedBit(op, v) == IF op = "ShiftR" THEN v % 2 ELSE (v \div 128) % 2

\* The value a one-bit shift leaves
Shifted(op, v) == IF op = "ShiftR" THEN v \div 2 ELSE (v * 2) % 256

\* C13: ShiftR{x} and ShiftL{x} with x # VF leave V[x] shifted by one bit and
\* VF = the ejected bit (bit 0, respectively bit 7, of the old V[x]); no
\* other register changes.
C13_ShiftFlag ==
    \A k \in StepsOf("ShiftR") \cup StepsOf("ShiftL") :
        LET a == history[k]
            b == history[k + 1]
            ins == fetched(a)
            v == rv(a, ins.r)
        IN  ins.r # VF =>
                /\ rv(b, ins.r) = Shifted(ins.op, v)
                /\ rv(b, VF) = EjectedBit(ins.op, v)
                /\ \A q \in 0..15 : q \notin {ins.r, VF} => rv(b, q) = rv(a, q)

\* What does hold of the shifts: VF is always left 0
C13_ShiftFlagZero ==
    \A k \in StepsOf("ShiftR") \cup StepsOf("ShiftL") :
        LET a == history[k]
            b == history[k + 1]
            ins == fetched(a)
            v == rv(a, ins.r)
        IN  ins.r # VF =>
                /\ rv(b, ins.r) = Shifted(ins.op, v)
                /\ rv(b, VF) = 0
                /\ \A q \in 0..15 : q \notin {ins.r, VF} => rv(b, q) = rv(a, q)

\* The flag each flag-producing instruction computes from the registers
\* before it: carry, NOT borrow, or the ejected bit
FlagOf(a) ==
    LET ins == fetched(a)
    IN  IF ins.op = "Add" THEN (IF rv(a, ins.r) + rv(a, ins.s) >= 256 THEN 1 ELSE 0)
        ELSE IF ins.op = "Sub" THEN (IF rv(a, ins.r) < rv(a, ins.s) THEN 0 ELSE 1)
        ELSE IF ins.op = "Lt" THEN (IF rv(a, ins.s) < rv(a, ins.r) THEN 0 ELSE 1)
        ELSE EjectedBit(ins.op, rv(a, ins.r))

FlagOps == {"Add", "Sub", "Lt", "ShiftR", "ShiftL"}

\* C14: a flag-producing instruction whose destination is VF leaves the flag
\* in VF, not the arithmetic or shift result.
C14_FlagLast ==
    \A k \in Steps :
        LET a == history[k]
            ins == fetched(a)
        IN  (ins.op \in FlagOps /\ ins.r = VF) => rv(history[k + 1], VF) = FlagOf(a)

\* What does hold with destination VF: Add, Sub and Lt leave the flag, the
\* shifts leave the shift result
C14_FlagLastArith ==
    \A k \in Steps :
        LET a == history[k]
            ins == fetched(a)
        IN  (ins.op \in FlagOps /\ ins.r = VF) =>
                rv(history[k + 1], VF) =
                    (IF ins.op \in {"ShiftR", "ShiftL"}
                     THEN Shifted(ins.op, rv(a, VF)) ELSE FlagOf(a))

\* ------------------------------------------------------------ claims: Draw

\* Bound of the model: how many instructions a drawing program runs.
DrawSteps == 7

\* Sprites of 0, 1, 1, 2 and 15 bytes
Sprites ==
    { <<>>, <<0>>, <<128>>, <<255, 129>>, [k \in 1..15 |-> (k * 37) % 256] }

\* Origins <<V[x], V[y]>>: inside the grid, across both edges, and past the
\* grid in both coordinates
Origins == { <<0, 0>>, <<62, 31>>, <<64, 32>>, <<255, 200>> }

\* Register pairs <<x, y>> of the Draw
DrawRegs == { <<0, 1>>, <<3, 3>>, <<0, VF>> }

\* Annn 6xcc 6yrr [Dxxn] Dxyn Dxyn 1self, then the sprite: set I to the
\* sprite, set the origin, optionally draw once at <<V[x], V[x]>> so that the
\* framebuffer is not empty, then draw twice at the origin
ProgSprite(prior, xy, o, sprite) ==
    LET x == xy[1]
        y == xy[2]
        n == Len(sprite)
        ncode == IF prior THEN 7 ELSE 6
        self == 2 * (ncode - 1)
    IN  W(10, 2, 0, 2 * ncode) \o
        W(6, x, o[1] \div 16, o[1] % 16) \o
        W(6, y, o[2] \div 16, o[2] % 16) \o
        (IF prior THEN W(13, x, x, n) ELSE <<>>) \o
        W(13, x, y, n) \o W(13, x, y, n) \o
        W(1, 2, 0, self) \o sprite

DrawPrograms ==
    { ProgSprite(prior, xy, o, sprite) :
        prior \in BOOLEAN, xy \in DrawRegs, o \in Origins, sprite \in Sprites }

InitDraw == InitOf(DrawPrograms)

\* step_forward calls until the drawing program has run
DrawNext == Len(history) <= DrawSteps /\ StepForward

SpecDraw == InitDraw /\ [][DrawNext]_vars

\* The steps k such that steps k and k + 1 execute the same Draw, with the
\* same I and with x, y # VF (hence the same origin and the same sprite)
DrawPairs ==
    { k \in StepsOf("Draw") :
        /\ k + 2 <= Len(history)
        /\ history[k + 1].pc = history[k].pc + 2
        /\ fetched(history[k + 1]) = fetched(history[k])
        /\ history[k + 1].i = history[k].i
        /\ fetched(history[k]).x # VF
        /\ fetched(history[k]).y # VF }

\* The sprite that chip is about to draw has a set bit
SpriteHasBit(chip) ==
    \E i \in 0..(fetched(chip).height - 1) : chip.memory[chip.i + i] # 0

\* C15: a Draw with x, y # VF onto an all-zero framebuffer leaves VF = 0; the
\* same Draw twice in a row restores the framebuffer; when the first started
\* from an all-zero framebuffer the second leaves VF = 1 iff the sprite has a
\* set bit; VF is 0 or 1 after every Draw.
C15_DrawTwice ==
    /\ \A k \in StepsOf("Draw") :
          LET a == history[k]
              b == history[k + 1]
              ins == fetched(a)
          IN  /\ rv(b, VF) \in {0, 1}
              /\ (ins.x # VF /\ ins.y # VF /\ a.screen = Screen_new) => rv(b, VF) = 0
    /\ \A k \in DrawPairs :
          LET a == history[k]
              c == history[k + 2]
          IN  /\ c.screen = a.screen
              /\ a.screen = Screen_new =>
                    (rv(c, VF) = 1 <=> SpriteHasBit(a))

\* C15 witness: a sprite with a set bit has been drawn twice in a row onto a
\* framebuffer that was not empty, changing it and then restoring it.
C15_Witness ==
    \E k \in DrawPairs :
        /\ history[k].screen # Screen_new
        /\ SpriteHasBit(history[k])
        /\ history[k + 1].screen # history[k].screen
        /\ history[k + 2].screen = history[k].screen

\* The sprite pixel of the Draw that chip is about to execute which lands on
\* cell (r, c) when every pixel wraps around the grid: sprite row
\* (r - V[y]) mod 32 and bit (c - V[x]) mod 64, if the sprite has them
WrappedHit(chip, r, c) ==
    LET ins == fetched(chip)
        i == (r - rv(chip, ins.y)) % 32
        j == (c - rv(chip, ins.x)) % 64
    IN  i < ins.height /\ j < 8 /\ Bit(chip.memory[chip.i + i], 7 - j) = 1

\* The same when pixels past row 31 or column 63 are dropped: only the
\* origin wraps
ClippedHit(chip, r, c) ==
    LET ins == fetched(chip)
        i == r - (rv(chip, ins.y) % 32)
        j == c - (rv(chip, ins.x) % 64)
    IN  i >= 0 /\ i < ins.height /\ j >= 0 /\ j < 8 /\ Bit(chip.memory[chip.i + i], 7 - j) = 1

Cells == (0..31) \X (0..63)

\* C16 as stated: Draw changes only cells (r0+i, c0+j) with r0+i <= 31 and
\* c0+j <= 63, where r0 = V[y] mod 32 and c0 = V[x] mod 64; pixels past the
\* bottom or right edge are dropped and do not contribute to the collision
\* flag.
C16_Clipped ==
    \A k \in StepsOf("Draw") :
        LET a == history[k]
            b == history[k + 1]
        IN  /\ \A rc \in Cells :
                  b.screen[rc[1]][rc[2]] = (a.screen[rc[1]][rc[2]] # ClippedHit(a, rc[1], rc[2]))
            /\ rv(b, VF) = 1 <=>
                  \E rc \in Cells : a.screen[rc[1]][rc[2]] /\ ClippedHit(a, rc[1], rc[2])

\* C16 amended: Draw flips exactly the cells ((V[y]+i) mod 32, (V[x]+j) mod 64)
\* of the set sprite bits: every pixel wraps around the grid, and a wrapped
\* pixel that clears a lit cell sets the collision flag like any other.
C16_Wrapped ==
    \A k \in StepsOf("Draw") :
        LET a == history[k]
            b == history[k + 1]
        IN  /\ \A rc \in Cells :
                  b.screen[rc[1]][rc[2]] = (a.screen[rc[1]][rc[2]] # WrappedHit(a, rc[1], rc[2]))
            /\ rv(b, VF) = 1 <=>
                  \E rc \in Cells : a.screen[rc[1]][rc[2]] /\ WrappedHit(a, rc[1], rc[2])

\* C16 witness: a Draw whose sprite crosses the bottom and the right edge has
\* lit a cell above and to the left of its origin.
C16_Witness ==
    \E k \in StepsOf("Draw") :
        LET a == history[k]
            b == history[k + 1]
            r0 == rv(a, fetched(a).y) % 32
            c0 == rv(a, fetched(a).x) % 64
        IN  \E rc \in Cells :
                /\ rc[1] < r0 /\ rc[2] < c0
                /\ ~a.screen[rc[1]][rc[2]] /\ b.screen[rc[1]][rc[2]]

\* ------------------------------------------------------------ claims: memory

\* Bound of the model: how many instructions a memory program runs.
MemSteps == 9

\* The address nnn as the three nibbles of an instruction word
Annn(nnn) == W(10, nnn \div 256, (nnn \div 16) % 16, nnn % 16)

\* 6xvv Annn Fx33 1206: V[x] = v, I = nnn, StoreBCD, loop
ProgBcd(x, v, nnn) ==
    W(6, x, v \div 16, v % 16) \o Annn(nnn) \o W(15, x, 3, 3) \o W(1, 2, 0, 6)

\* 6011 6122 6233 6344 6F55 Annn Fx55 Fx65 1210: fill V0..V3 and VF, I = nnn,
\* RegDump, RegLoad, loop
ProgDumpLoad(x, nnn) ==
    W(6,0,1,1) \o W(6,1,2,2) \o W(6,2,3,3) \o W(6,3,4,4) \o W(6,15,5,5) \o
    Annn(nnn) \o W(15, x, 5, 5) \o W(15, x, 6, 5) \o W(1, 2, 1, 0)

\* A206 Fx65 1204, then 16 bytes A1 A2 .. B0: I = the data, RegLoad, loop
ProgLoad(x) ==
    Annn(518) \o W(15, x, 6, 5) \o W(1, 2, 0, 4) \o [k \in 1..16 |-> 160 + k]

BcdValues == {0, 7, 9, 10, 99, 100, 123, 199, 200, 255}
BcdAddrs == {768, 4093}
DumpAddrs == {0, 768}
DumpRegs == {0, 3, 15}

MemPrograms ==
    { ProgBcd(x, v, nnn) : x \in {0, 7}, v \in BcdValues, nnn \in BcdAddrs } \cup
    { ProgDumpLoad(x, nnn) : x \in DumpRegs, nnn \in DumpAddrs } \cup
    { ProgLoad(x) : x \in DumpRegs }

InitMem == InitOf(MemPrograms)

\* step_forward calls until the memory program has run
MemNext == Len(history) <= MemSteps /\ StepForward

SpecMem == InitMem /\ [][MemNext]_vars

\* StoreBCD{x} from machine a to machine b stored the three decimal digits of
\* V[x] at I, I+1, I+2 and left V[x] and I alone
BcdStored(a, b, x) ==
    LET v == rv(a, x)
        m == b.memory
    IN  /\ 100 * m[a.i] + 10 * m[a.i + 1] + m[a.i + 2] = v
        /\ \A d \in 0..2 : m[a.i + d] \in 0..9
        /\ rv(b, x) = v
        /\ b.i = a.i

\* C17: for every value v of V[x] and I + 2 <= 0xFFF, StoreBCD{x} leaves
\* 100*mem[I] + 10*mem[I+1] + mem[I+2] = v with each byte in 0..9, and leaves
\* V[x] and I unchanged. Checked on the executed steps and, at each machine
\* about to execute StoreBCD, for every value of V[x].
C17_StoreBCD ==
    \A k \in StepsOf("StoreBCD") :
        LET a == history[k]
            x == fetched(a).r
        IN  a.i + 2 <= 4095 =>
                /\ BcdStored(a, history[k + 1], x)
                /\ \A v \in 0..255 :
                      LET av == set_v(a, x, v)
                          r == exec_instr(av, fetched(a), 0, overflow_checks)
                      IN  r.panic = "none" /\ BcdStored(av, r.chip, x)

\* C17 witness: StoreBCD of 123 at I = 0xFFD has stored 1, 2, 3 in the last
\* three bytes of memory.
C17_Witness ==
    \E k \in StepsOf("StoreBCD") :
        LET a == history[k]
            b == history[k + 1]
        IN  /\ rv(a, fetched(a).r) = 123
            /\ a.i = 4093
            /\ b.memory[4093] = 1 /\ b.memory[4094] = 2 /\ b.memory[4095] = 3

\* C18: RegDump{x} sets mem[I+i] = V[i] for i in 0..x and changes no other
\* byte; RegLoad{x} sets V[i] = mem[I+i] for i in 0..x and changes no register
\* above Vx; both leave I unchanged.
C18_DumpLoadAtI ==
    /\ \A k \in StepsOf("RegDump") :
          LET a == history[k]
              b == history[k + 1]
              x == fetched(a).x
          IN  /\ \A i \in 0..x : b.memory[a.i + i] = rv(a, i)
              /\ \A m \in 0..(MEM_SIZE - 1) :
                    m \notin a.i..(a.i + x) => b.memory[m] = a.memory[m]
              /\ b.i = a.i
    /\ \A k \in StepsOf("RegLoad") :
          LET a == history[k]
              b == history[k + 1]
              x == fetched(a).x
          IN  /\ \A i \in 0..x : rv(b, i) = a.memory[a.i + i]
              /\ \A q \in (x + 1)..15 : rv(b, q) = rv(a, q)
              /\ b.i = a.i

\* What does hold of RegDump and RegLoad: they use mem[i], whatever I is
C18_DumpLoadAtZero ==
    /\ \A k \in StepsOf("RegDump") :
          LET a == history[k]
              b == history[k + 1]
              x == fetched(a).x
          IN  /\ \A i \in 0..x : b.memory[i] = rv(a, i)
              /\ \A m \in (x + 1)..(MEM_SIZE - 1) : b.memory[m] = a.memory[m]
              /\ b.i = a.i
    /\ \A k \in StepsOf("RegLoad") :
          LET a == history[k]
              b == history[k + 1]
              x == fetched(a).x
          IN  /\ \A i \in 0..x : rv(b, i) = a.memory[i]
              /\ \A q \in (x + 1)..15 : rv(b, q) = rv(a, q)
              /\ b.i = a.i

\* The steps k that execute RegDump{x} followed at step k + 1 by RegLoad{x}
\* with the same I
DumpLoadPairs ==
    { k \in StepsOf("RegDump") :
        /\ k + 2 <= Len(history)
        /\ fetched(history[k + 1]).op = "RegLoad"
        /\ fetched(history[k + 1]).x = fetched(history[k]).x
        /\ history[k + 1].i = history[k].i }

\* C19: RegDump{x} followed by RegLoad{x} with the same I leaves every
\* register with the value it had before the RegDump.
C19_DumpThenLoad ==
    \A k \in DumpLoadPairs : history[k + 2].registers = history[k].registers

\* C19 witness: RegDump{3} then RegLoad{3} have run with V0..V3 non-zero; the
\* dump changed memory and the registers are as before.
C19_Witness ==
    \E k \in DumpLoadPairs :
        /\ fetched(history[k]).x = 3
        /\ \A i \in 0..3 : rv(history[k], i) # 0
        /\ history[k + 1].memory # history[k].memory
        /\ history[k + 2].registers = history[k].registers

\* ------------------------------------------------------------ claims: decoding

\* Bound of the model: how many instructions a decoding program runs.
DecodeSteps == 1

\* The 256 instruction words whose first byte is hi, in order of the second
ProgWords(hi) == [k \in 1..512 |-> IF k % 2 = 1 THEN hi ELSE (k \div 2) - 1]

\* Every one of the 65536 words is in one of these programs
DecodePrograms == { ProgWords(hi) : hi \in 0..255 }

InitDecode == InitOf(DecodePrograms)

\* step_forward calls on the first words of the program
DecodeNext == Len(history) <= DecodeSteps /\ StepForward

SpecDecode == InitDecode /\ [][DecodeNext]_vars

\* Decoding as read_instr does it: from_bytes, then into_instr
decode(bytes) == into_instr(from_bytes(bytes))

\* The words of the loaded program, each as its two bytes
ImageWords ==
    { <<history[1].memory[CODE_START + 2 * k], history[1].memory[CODE_START + 2 * k + 1]>> :
        k \in 0..255 }

\* The variants of Instr
InstrOps ==
    { "Clear", "Ret", "System", "Goto", "Call", "SkipEq", "SkipNEq", "SkipEqV",
      "Set", "Incr", "Copy", "BitOr", "BitAnd", "BitXOr", "Add", "Sub", "ShiftR",
      "Lt", "ShiftL", "SkipNEqV", "SetI", "Jump", "Rand", "Draw", "Pressed",
      "NotPressed", "GetDelay", "LoadKey", "SetDelayTimer", "SetSoundTimer",
      "IncrI", "SpriteAddr", "StoreBCD", "RegDump", "RegLoad", "Data" }

\* The nibble patterns of the decoding table
InTable(b) ==
    \/ b[1] \in {0, 1, 2, 3, 4, 6, 7, 10, 11, 12, 13}
    \/ b[1] \in {5, 9} /\ b[4] = 0
    \/ b[1] = 8 /\ b[4] \in {0, 1, 2, 3, 4, 5, 6, 7, 14}
    \/ b[1] = 14 /\ <<b[3], b[4]>> \in { <<9, 14>>, <<10, 1>> }
    \/ b[1] = 15 /\ <<b[3], b[4]>> \in
          { <<0, 7>>, <<0, 10>>, <<1, 5>>, <<1, 8>>, <<1, 14>>, <<2, 9>>, <<3, 3>>,
            <<5, 5>>, <<6, 5>> }

\* The three nibbles of an address and the two nibbles of a byte
Nib3(a) == <<a \div 256, (a \div 16) % 16, a % 16>>
Nib2(c) == <<c \div 16, c % 16>>

\* The first nibble and the last nibble (or the last two) that the table
\* gives each variant
OpCode ==
    [ SkipEqV |-> <<5, 0>>, Copy |-> <<8, 0>>, BitOr |-> <<8, 1>>, BitAnd |-> <<8, 2>>,
      BitXOr |-> <<8, 3>>, Add |-> <<8, 4>>, Sub |-> <<8, 5>>, ShiftR |-> <<8, 6>>,
      Lt |-> <<8, 7>>, ShiftL |-> <<8, 14>>, SkipNEqV |-> <<9, 0>>,
      Pressed |-> <<14, 9, 14>>, NotPressed |-> <<14, 10, 1>>,
      GetDelay |-> <<15, 0, 7>>, LoadKey |-> <<15, 0, 10>>,
      SetDelayTimer |-> <<15, 1, 5>>, SetSoundTimer |-> <<15, 1, 8>>,
      IncrI |-> <<15, 1, 14>>, SpriteAddr |-> <<15, 2, 9>>, StoreBCD |-> <<15, 3, 3>>,
      RegDump |-> <<15, 5, 5>>, RegLoad |-> <<15, 6, 5>> ]

\* Re-encoding by the table: the four nibbles of a non-Data instruction. A
\* shift carries no y, so its y nibble is encoded as 0.
encode(ins) ==
    LET op == ins.op
    IN  IF op = "Clear" THEN <<0, 0, 14, 0>>
        ELSE IF op = "Ret" THEN <<0, 0, 14, 14>>
        ELSE IF op = "System" THEN <<0>> \o Nib3(ins.addr)
        ELSE IF op = "Goto" THEN <<1>> \o Nib3(ins.addr)
        ELSE IF op = "Call" THEN <<2>> \o Nib3(ins.addr)
        ELSE IF op = "SkipEq" THEN <<3, ins.r>> \o Nib2(ins.c)
        ELSE IF op = "SkipNEq" THEN <<4, ins.r>> \o Nib2(ins.c)
        ELSE IF op = "Set" THEN <<6, ins.r>> \o Nib2(ins.a)
        ELSE IF op = "Incr" THEN <<7, ins.r>> \o Nib2(ins.a)
        ELSE IF op = "SetI" THEN <<10>> \o Nib3(ins.n)
        ELSE IF op = "Jump" THEN <<11>> \o Nib3(ins.n)
        ELSE IF op = "Rand" THEN <<12, ins.r>> \o Nib2(ins.n)
        ELSE IF op = "Draw" THEN <<13, ins.x, ins.y, ins.height>>
        ELSE IF op \in {"ShiftR", "ShiftL"} THEN <<8, ins.r, 0, OpCode[op][2]>>
        ELSE IF op \in {"RegDump", "RegLoad"} THEN <<15, ins.x, OpCode[op][2], OpCode[op][3]>>
        ELSE IF Len(OpCode[op]) = 3 THEN <<OpCode[op][1], ins.r, OpCode[op][2], OpCode[op][3]>>
        ELSE <<OpCode[op][1], ins.r, ins.s, OpCode[op][2]>>

\* The nibbles of a word with the y nibble of a shift (8xy6, 8xyE) cleared
ShiftYCleared(b) ==
    IF b[1] = 8 /\ b[4] \in {6, 14} THEN <<b[1], b[2], 0, b[4]>> ELSE b

\* Decoding returns a variant of Instr for the word w, and Data of its four
\* nibbles when the word is outside the table
DecodesTotally(w) ==
    /\ decode(w).op \in InstrOps
    /\ ~InTable(byte_to_nibbles(w[1]) \o byte_to_nibbles(w[2])) =>
          decode(w) = [op |-> "Data", b |-> byte_to_nibbles(w[1]) \o byte_to_nibbles(w[2])]

\* C20 as stated: decoding returns an instruction for every two-byte input,
\* maps every pattern outside the table to Data of its four nibbles, and
\* every non-Data instruction determines its two bytes: re-encoding it
\* reproduces them.
C20_DecodeReencode ==
    \A w \in ImageWords :
        /\ DecodesTotally(w)
        /\ decode(w).op # "Data" =>
              encode(decode(w)) = byte_to_nibbles(w[1]) \o byte_to_nibbles(w[2])

\* C20 amended: the same, except that ShiftR and ShiftL determine their two
\* bytes only up to the y nibble, which decoding drops.
C20_DecodeUpToShiftY ==
    \A w \in ImageWords :
        /\ DecodesTotally(w)
        /\ decode(w).op # "Data" =>
              encode(decode(w)) = ShiftYCleared(byte_to_nibbles(w[1]) \o byte_to_nibbles(w[2]))

\* C20 witness: the program of the words 80kk has been loaded and stepped;
\* its words 8006 and 8016 decode to the same instruction, and its word 8008
\* to Data.
C20_Witness ==
    /\ Len(history) = 2
    /\ {<<128, 6>>, <<128, 22>>, <<128, 8>>} \subseteq ImageWords
    /\ decode(<<128, 6>>) = decode(<<128, 22>>)
    /\ decode(<<128, 6>>).op = "ShiftR"
    /\ decode(<<128, 8>>) = [op |-> "Data", b |-> <<8, 0, 0, 8>>]

\* ------------------------------------------------------------ claims: loading

\* Bound of the model: how many instructions a loaded file runs.
LoadSteps == 6

\* A file of len bytes, all equal
File(len, byte) == [k \in 1..len |-> byte]

\* Files shorter than, exactly as long as, and longer than the room above
\* CODE_START; 1111 is Goto 0x111 and 6060 is Set V0
LoadFiles ==
    { File(len, byte) : len \in {1, 2, 100, 3583, 3584, 3585, 4000}, byte \in {17, 96} }

\* main before load_memory: the machine Chip8::new returns
InitLoad ==
    /\ history = <<Chip8_new>>
    /\ p = 0
    /\ panicked = "none"
    /\ overflow_checks \in BOOLEAN
    /\ AppInit

\* main: chip.load_memory(file), then App::new(chip); a panic ends the process
Load(file) ==
    /\ panicked = "none"
    /\ history = <<Chip8_new>>
    /\ LET r == load_memory(Chip8_new, file)
           d == Debugger_new(r.chip)
       IN  /\ history' = d.history
           /\ p' = d.p
           /\ panicked' = r.panic
    /\ UNCHANGED <<overflow_checks, app>>

\* step_forward calls on the loaded machine
LoadedStep ==
    /\ history[1] # Chip8_new
    /\ Len(history) <= LoadSteps
    /\ StepForward

LoadNext == (\E file \in LoadFiles : Load(file)) \/ LoadedStep

SpecLoad == InitLoad /\ [][LoadNext]_vars

\* chip is the initial machine with exactly the bytes of file at
\* memory[0x200 .. 0x200+len]
HoldsFile(chip, file) ==
    /\ \A a \in 0..4095 :
          chip.memory[a] = (IF a >= 512 /\ a < 512 + Len(file) THEN file[a - 511] ELSE 0)
    /\ chip.pc = 512
    /\ chip.sp = 0
    /\ \A r \in 0..15 : chip.registers[r] = 0

\* C21: load_memory succeeds for every file of length len <= 3584, writing
\* its bytes at 0x200 and leaving the rest of the machine initial, and fails
\* for every len > 3584.
C21_LoadUpTo3584 ==
    [][\A file \in LoadFiles :
          Load(file) =>
              IF Len(file) <= 3584
              THEN panicked' = "none" /\ HoldsFile(history'[1], file)
              ELSE panicked' # "none"]_vars

\* What does hold of load_memory: it accepts len <= 3583 and panics from
\* len = 3584 on
C21_LoadUpTo3583 ==
    [][\A file \in LoadFiles :
          Load(file) =>
              IF Len(file) <= 3583
              THEN panicked' = "none" /\ HoldsFile(history'[1], file)
              ELSE panicked' = "LoadError" /\ history' = history]_vars

\* ------------------------------------------------------------ claims: index register

\* Bound of the model: how many instructions an index program runs.
IdxSteps == 7

\* Annn 60vv F01E F01E A123 F01E 120C: I = nnn, V0 = v, IncrI twice, I = 0x123,
\* IncrI, loop
ProgIdx(nnn, v) ==
    Annn(nnn) \o W(6, 0, v \div 16, v % 16) \o W(15,0,1,14) \o W(15,0,1,14) \o
    W(10,1,2,3) \o W(15,0,1,14) \o W(1,2,0,12)

\* 60vv F029 1204: V0 = v, SpriteAddr V0, loop
ProgGlyph(v) == W(6, 0, v \div 16, v % 16) \o W(15,0,2,9) \o W(1,2,0,4)

IdxPrograms ==
    { ProgIdx(nnn, v) : nnn \in {0, 2048, 4095}, v \in {0, 1, 255} } \cup
    { ProgGlyph(v) : v \in {0, 1, 10, 15, 31} }

InitIdx == InitOf(IdxPrograms)

\* step_forward calls until the index program has run
IdxNext == Len(history) <= IdxSteps /\ StepForward

SpecIdx == InitIdx /\ [][IdxNext]_vars

\* How many of the steps after step j and before snapshot k executed IncrI
IncrISteps(j, k) == Cardinality({ m \in j..(k - 1) : fetched(history[m]).op = "IncrI" })

\* The last step before snapshot k that executed SetI (0 when there is none)
LastSetI(k) ==
    LET S == { m \in 1..(k - 1) : fetched(history[m]).op = "SetI" }
    IN  IF S = {} THEN 0 ELSE CHOOSE m \in S : \A n \in S : n <= m

\* C22 as stated: in every reachable machine state 0 <= I <= 0xFFF.
C22_IndexIn12Bits ==
    \A k \in 1..Len(history) : history[k].i \in 0..4095

\* C22 amended: I is a 16-bit value, 0 <= I <= 0xFFFF; it is at most 0xFFF
\* after SetI and grows by at most 255 with each IncrI since.
C22_IndexIn16Bits ==
    \A k \in 1..Len(history) :
        /\ history[k].i \in 0..65535
        /\ history[k].i <= 4095 + 255 * IncrISteps(LastSetI(k) + 1, k)

\* C22 witness: IncrI has taken I from 0xFFF to 0x10FE.
C22_Witness ==
    \E k \in StepsOf("IncrI") :
        history[k].i = 4095 /\ history[k + 1].i = 4350

\* font::ALL_CHARS, the 16 glyphs of 5 bytes in order 0..F
ALL_CHARS ==
    <<240, 144, 144, 144, 240,   32,  96,  32,  32, 112,
      240,  16, 240, 128, 240,  240,  16, 240,  16, 240,
      144, 144, 240,  16,  16,  240, 128, 240,  16, 240,
      240, 128, 240, 144, 240,  240,  16,  32,  64,  64,
      240, 144, 240, 144, 240,  240, 144, 240,  16, 240,
      240, 144, 240, 144, 144,  224, 144, 224, 144, 224,
      240, 128, 128, 128, 144,  224, 144, 144, 144, 224,
      240, 128, 240, 128, 240,  240, 128, 240, 128, 128>>

\* The machine at the cursor is about to execute op and the process has
\* panicked there
FailedAt(op) ==
    /\ panicked # "none"
    /\ p = Len(history) - 1
    /\ fetched(history[Len(history)]).op = op

\* C23: the post-load memory[0x000..0x04F] holds the 16 built-in glyphs, and
\* SpriteAddr{x} succeeds with I = 5 * (V[x] & 0x0F), PC advanced by 2 and all
\* registers unchanged.
C23_SpriteAddr ==
    /\ \A a \in 0..79 : history[1].memory[a] = ALL_CHARS[a + 1]
    /\ ~FailedAt("SpriteAddr")
    /\ \A k \in StepsOf("SpriteAddr") :
          LET a == history[k]
              b == history[k + 1]
          IN  /\ b.i = 5 * (rv(a, fetched(a).r) % 16)
              /\ b.pc = a.pc + 2
              /\ b.registers = a.registers

\* What does hold: the post-load memory below 0x200 is all zero and every
\* SpriteAddr panics
C23_NoGlyphs ==
    /\ \A a \in 0..511 : history[1].memory[a] = 0
    /\ StepsOf("SpriteAddr") = {}

\* ------------------------------------------------------------ claims: application

\* Bound of the model: how many commands the input thread sends.
MaxSent == 2

\* command::Command
Commands ==
    { "StepForward", "BigStepForward", "StepBackward", "BigStepBackward",
      "Exit", "Redraw", "ToggleDiff" }

\* The argument of steps_forward and steps_back in App::run
BIG_STEP == 10

\* Debugger::steps_forward: step_forward up to n times, stopping at the
\* first failure
steps_forward(d, n, rnd, oc) == ForwardTimes(d, n, rnd, oc)

\* Debugger::steps_back: step_back up to n times
steps_back(d, n) == BackTimes(d, n)

\* The application state a command acts on
appState ==
    [history |-> history, p |-> p, diff |-> diff, running |-> running, panic |-> panicked]

\* The debugger of an application state
debugger_of(a) == [history |-> a.history, p |-> a.p]

\* The application state with the debugger as a forward call left it
after_forward(a, r) == [a EXCEPT !.history = r.history, !.p = r.p, !.panic = r.panic]

\* The application state with the debugger as a backward call left it
after_back(a, r) == [a EXCEPT !.history = r.history, !.p = r.p]

\* App::run's match on a received command, with Exit not leaving the loop
run_command_noexit(a, c, rnd, oc) ==
    IF c = "Exit" THEN a
    ELSE IF c = "Redraw" THEN a
    ELSE IF c = "ToggleDiff" THEN [a EXCEPT !.diff = ~a.diff]
    ELSE IF c = "StepForward" THEN after_forward(a, step_forward(debugger_of(a), rnd, oc))
    ELSE IF c = "BigStepForward" THEN
        after_forward(a, steps_forward(debugger_of(a), BIG_STEP, rnd, oc))
    ELSE IF c = "BigStepBackward" THEN after_back(a, steps_back(debugger_of(a), BIG_STEP))
    ELSE after_back(a, step_back(debugger_of(a)))

\* App::run's match on a received command: Exit breaks out of the loop, the
\* other commands act on the debugger
run_command(a, c, rnd, oc) ==
    IF c = "Exit" THEN [a EXCEPT !.running = FALSE]
    ELSE IF c = "Redraw" THEN a
    ELSE IF c = "ToggleDiff" THEN [a EXCEPT !.diff = ~a.diff]
    ELSE IF c = "StepForward" THEN after_forward(a, step_forward(debugger_of(a), rnd, oc))
    ELSE IF c = "BigStepForward" THEN
        after_forward(a, steps_forward(debugger_of(a), BIG_STEP, rnd, oc))
    ELSE IF c = "BigStepBackward" THEN after_back(a, steps_back(debugger_of(a), BIG_STEP))
    ELSE after_back(a, step_back(debugger_of(a)))

\* Programs without Rand: one that loops and one that panics at its second
\* instruction
AppPrograms == { ProgLoop, ProgData }

InitApp == InitOf(AppPrograms)

\* App::input_loop, on the input thread: an event that maps to command c is
\* sent on the channel
SendCommand(c) ==
    /\ panicked = "none"
    /\ Len(sent) < MaxSent
    /\ channel' = Append(channel, c)
    /\ sent' = Append(sent, c)
    /\ UNCHANGED <<history, p, panicked, overflow_checks, diff, running>>

\* App::run, on the main thread: one iteration of the loop receives the
\* oldest command of the channel and runs it
RecvCommand ==
    /\ panicked = "none"
    /\ running
    /\ channel # <<>>
    /\ \E rnd \in random_draws(dbg) :
          LET r == run_command(appState, Head(channel), rnd, overflow_checks)
          IN  /\ history' = r.history
              /\ p' = r.p
              /\ diff' = r.diff
              /\ running' = r.running
              /\ panicked' = r.panic
    /\ channel' = Tail(channel)
    /\ UNCHANGED <<overflow_checks, sent>>

AppNext == (\E c \in Commands : SendCommand(c)) \/ RecvCommand

SpecApp == InitApp /\ [][AppNext]_vars

\* The commands the main loop has received: those sent and no longer in the
\* channel
Received == SubSeq(sent, 1, Len(sent) - Len(channel))

\* The commands of cmds up to and including the first Exit
RECURSIVE UpToExit(_)
UpToExit(cmds) ==
    IF cmds = <<>> THEN <<>>
    ELSE IF Head(cmds) = "Exit" THEN <<"Exit">>
    ELSE <<Head(cmds)>> \o UpToExit(Tail(cmds))

\* The application state after the commands cmds, none of them Exit, have
\* acted one after the other on state a (stopping at a panic)
RECURSIVE InOrder(_, _)
InOrder(a, cmds) ==
    IF cmds = <<>> \/ a.panic # "none" THEN a
    ELSE InOrder(run_command(a, Head(cmds), 0, overflow_checks), Tail(cmds))

\* C24: the main loop applies the commands in the order they were sent; once
\* it receives Exit it leaves the loop and applies no further command, so
\* commands behind Exit never change the history, the cursor or the diff
\* flag; sending a command changes none of them.
C24_CommandOrder ==
    LET start == [history |-> <<history[1]>>, p |-> 0, diff |-> FALSE,
                  running |-> TRUE, panic |-> "none"]
        acted == SelectSeq(Received, LAMBDA c : c # "Exit")
        after == InOrder(start, acted)
    IN  /\ sent = Received \o channel
        /\ Received = UpToExit(Received)
        /\ running <=> (\A k \in 1..Len(Received) : Received[k] # "Exit")
        /\ history = after.history
        /\ p = after.p
        /\ diff = after.diff
        /\ panicked = after.panic

\* C24 witness: Exit was sent before StepForward; the loop has left on Exit
\* and the StepForward stays in the channel, the history still one snapshot.
C24_Witness ==
    /\ sent = <<"Exit", "StepForward">>
    /\ channel = <<"StepForward">>
    /\ ~running
    /\ Len(history) = 1 /\ p = 0

\* ------------------------------------------------------------ claims: determinism

\* Random bytes two machines may draw in the same step
TwoDraws == {0, 1, 254, 255} \X {0, 1, 254, 255}

ScenSteps == 17

\* The scenario programs: S1 is ProgLoop and S5 is ProgCallRet
ProgS2 == W(6,0,15,15) \o W(6,1,0,1) \o W(8,0,1,4)
ProgS3 == W(6,0,0,1) \o W(6,1,0,2) \o W(8,0,1,5)
ProgS4 == W(10,3,0,0) \o W(6,0,0,0) \o W(6,1,0,0) \o W(13,0,1,1) \o W(13,0,1,1)
ProgS6 == W(6,0,7,11) \o W(10,3,0,0) \o W(15,0,3,3)

ScenPrograms == { ProgLoop, ProgS2, ProgS3, ProgS4, ProgCallRet, ProgS6 }

InitScen == InitOf(ScenPrograms)

\* step_forward calls until the scenario has run
ScenNext == Len(history) <= ScenSteps /\ StepForward

SpecScen == InitScen /\ [][ScenNext]_vars

\* The program prog is the one that was loaded
IsLoaded(prog) == history[1] = load_memory(Chip8_new, prog).chip

\* The values of PC in the first n snapshots of the history
PcTrace(n) == [k \in 1..n |-> history[k].pc]

\* C26 as stated: with 6000 7001 3005 1202 1208 loaded, after exactly 17
\* steps V0 = 5 and PC = 0x20A.
C26_S1EndsAt20A ==
    (IsLoaded(ProgLoop) /\ Len(history) >= 18) =>
        rv(history[18], 0) = 5 /\ history[18].pc = 522

\* C26 amended: after exactly 17 steps V0 = 5 and PC = 0x208, the address of
\* the trailing 1208.
C26_S1EndsAt208 ==
    (IsLoaded(ProgLoop) /\ Len(history) >= 18) =>
        /\ rv(history[18], 0) = 5
        /\ history[18].pc = 520
        /\ fetched(history[18]) = [op |-> "Goto", addr |-> 520]

\* C26 witness: the loop has run 17 steps.
C26_Witness ==
    IsLoaded(ProgLoop) /\ Len(history) = 18 /\ rv(history[18], 0) = 5

\* C27 as stated: with 2206 00E0 1204 00EE loaded, PC goes 0x206, 0x202,
\* 0x204, 0x204 and the run then ends with StackUnderflow at its next step,
\* so the history never holds a sixth snapshot.
C27_S5Underflows ==
    IsLoaded(ProgCallRet) =>
        /\ Len(history) <= 5
        /\ PcTrace(Len(history)) = SubSeq(<<512, 518, 514, 516, 516>>, 1, Len(history))
        /\ panicked \in {"none", "StackUnderflow"}

\* C27 amended: PC goes 0x206, 0x202, 0x204 and then stays at 0x204, where
\* the Goto 0x204 runs again at every step; no step fails.
C27_S5Loops ==
    IsLoaded(ProgCallRet) =>
        /\ \A k \in 1..Len(history) :
              history[k].pc = (IF k <= 4 THEN <<512, 518, 514, 516>>[k] ELSE 516)
        /\ \A k \in 3..Len(history) : history[k].sp = 0
        /\ panicked = "none"

\* C27 witness: the scenario has run six steps and is still at the Goto.
C27_Witness ==
    /\ IsLoaded(ProgCallRet)
    /\ Len(history) = 7
    /\ history[7].pc = 516
    /\ fetched(history[7]) = [op |-> "Goto", addr |-> 516]

\* ------------------------------------------------------------ claims: VF

\* Bound of the model: how many instructions a VF program runs.
VfSteps == 6

\* 6F07 60FF 6105 A300: VF = 7, V0 = 0xFF, V1 = 5, I = 0x300; the body
\* follows at 0x208
VfPrefix == W(6,15,0,7) \o W(6,0,15,15) \o W(6,1,0,5) \o W(10,3,0,0)

\* The bodies: every instruction that run_instr implements, the skips both
\* taken and not taken, Incr with and without a wrap, and the instructions
\* that name VF as their destination
VfBodies ==
    { W(0,1,2,3), W(0,0,14,0), W(2,2,0,10) \o W(0,0,14,14), W(1,2,0,12),
      W(3,0,15,15), W(3,0,0,0), W(4,0,15,15), W(4,0,0,0),
      W(5,0,1,0), W(5,0,0,0), W(9,0,1,0), W(9,0,0,0),
      W(6,2,3,3), W(6,15,0,9), W(7,0,0,2), W(7,1,0,2), W(7,15,0,1),
      W(8,2,1,0), W(8,15,1,0), W(8,0,1,1), W(8,0,1,2), W(8,0,1,3),
      W(8,0,1,4), W(8,0,1,5), W(8,0,1,6), W(8,0,1,7), W(8,0,1,14),
      W(10,1,2,3), W(11,2,0,0), W(12,2,0,15), W(12,15,0,15), W(13,0,1,1),
      W(15,0,1,14), W(15,0,3,3), W(15,1,5,5), W(15,1,6,5), W(15,15,6,5) }

VfPrograms == { VfPrefix \o body : body \in VfBodies }

InitVf == InitOf(VfPrograms)

\* step_forward calls until the program has run
VfNext == Len(history) <= VfSteps /\ StepForward

SpecVf == InitVf /\ [][VfNext]_vars

\* The instructions that write VF as a side channel
VfWriters == {"Add", "Sub", "Lt", "ShiftR", "ShiftL", "Draw"}

\* Register r is an explicit destination of instruction ins
WritesTo(ins, r) ==
    \/ ins.op \in {"Set", "Incr", "Copy", "BitOr", "BitAnd", "BitXOr", "Rand"} /\ ins.r = r
    \/ ins.op = "RegLoad" /\ r <= ins.x

\* C28: a step whose instruction is none of Add, Sub, Lt, ShiftR, ShiftL,
\* Draw and does not name VF as its destination leaves VF unchanged; Incr{x,kk}
\* with x # VF leaves V[x] = (V[x] + kk) mod 256 and VF unchanged, wrap or not.
C28_VfFrame ==
    \A k \in 1..(Len(history) - 1) :
        LET ins == fetched(history[k]) IN
        /\ (ins.op \notin VfWriters /\ ~WritesTo(ins, VF)) =>
              rv(history[k + 1], VF) = rv(history[k], VF)
        /\ (ins.op = "Incr" /\ ins.r # VF) =>
              /\ rv(history[k + 1], ins.r) = (rv(history[k], ins.r) + ins.a) % U8
              /\ rv(history[k + 1], VF) = rv(history[k], VF)

\* C28 witness: an Incr whose sum wrapped has run with VF = 7 before and after.
C28_Witness ==
    \E k \in 1..(Len(history) - 1) :
        LET ins == fetched(history[k]) IN
        /\ ins.op = "Incr" /\ ins.r # VF
        /\ rv(history[k], ins.r) + ins.a >= U8
        /\ rv(history[k], VF) = 7
        /\ rv(history[k + 1], VF) = 7

\* ------------------------------------------------------------ claims: replay

\* C29: with the cursor below the last index, step_forward leaves the history
\* as it is, moves the cursor by one and shows the snapshot stored there,
\* whatever byte rand::random would draw; so k step_back calls followed by k
\* step_forward calls (k up to MaxRoundTrip) give back the same history and the
\* same cursor.
C29_ReplayStored ==
    \A rnd \in RoundTripDraws :
        /\ p < Len(history) - 1 =>
              LET r == step_forward(dbg, rnd, overflow_checks) IN
              /\ r.panic = "none"
              /\ r.history = history
              /\ r.p = p + 1
              /\ peek(r) = history[p + 2]
        /\ \A k \in 0..MaxRoundTrip :
              LET f == ForwardTimes(BackTimes(dbg, k), k, rnd, overflow_checks) IN
              k <= p =>
              f.panic = "none" /\ f.history = history /\ f.p = p

\* C29 witness: the cursor was stepped back onto a Rand whose stored result is
\* not the one a new execution with the byte 0 would give.
C29_Witness ==
    /\ p < Len(history) - 1
    /\ fetched(peek(dbg)).op = "Rand"
    /\ run_instr(peek(dbg), 0, overflow_checks).chip # history[p + 2]

\* ------------------------------------------------------------ claims: memory frame

\* The addresses whose byte differs between the machines a and b
Changed(a, b) == { m \in 0..(MEM_SIZE - 1) : a.memory[m] # b.memory[m] }

\* C30: the step that appended the last snapshot changed memory only if its
\* instruction is StoreBCD, and then only within mem[I..=I+2], or RegDump{x},
\* and then in at most x+1 bytes; every other step left the 4096 bytes as they
\* were; the delay and sound timers are 0 in every snapshot.
C30_MemoryFrame ==
    /\ Len(history) >= 2 =>
          LET a == history[Len(history) - 1]
              b == history[Len(history)]
              ins == fetched(a)
          IN  /\ ins.op = "StoreBCD" => Changed(a, b) \subseteq a.i..(a.i + 2)
              /\ ins.op = "RegDump" => Cardinality(Changed(a, b)) <= ins.x + 1
              /\ ins.op \notin {"StoreBCD", "RegDump"} => b.memory = a.memory
    /\ \A k \in 1..Len(history) : history[k].delay = 0 /\ history[k].sound = 0

\* C30 witness: a StoreBCD has just changed all three bytes at I.
C30_Witness ==
    /\ Len(history) >= 2
    /\ LET a == history[Len(history) - 1]
       IN  /\ fetched(a).op = "StoreBCD"
           /\ Changed(a, history[Len(history)]) = a.i..(a.i + 2)

\* ------------------------------------------------------------ claims: call nesting

\* Bound of the model: how many instructions a program of calls runs.
CallSteps == 35

\* The word 2nnn
CallTo(nnn) == W(2, nnn \div 256, (nnn \div 16) % 16, nnn % 16)

\* Subroutines i..d of a chain, four bytes each from 0x204: subroutine i calls
\* subroutine i + 1 and returns; the last one is 7001 00EE
RECURSIVE ChainFrom(_, _)
ChainFrom(i, d) ==
    IF i = d THEN W(7,0,0,1) \o W(0,0,14,14)
    ELSE CallTo(CODE_START + 4 + 4 * i) \o W(0,0,14,14) \o ChainFrom(i + 1, d)

\* 2204 1202, then a chain of d subroutines: d nested calls, each from its
\* own address, then d returns and a loop at 0x202
ProgChain(d) == W(2,2,0,4) \o W(1,2,0,2) \o ChainFrom(1, d)

\* 2206 2206 1204 | A: 7001 2210 7001 2210 00EE | B: 7101 00EE: A is called
\* twice and calls B twice, with other instructions in between
ProgSiblings ==
    W(2,2,0,6) \o W(2,2,0,6) \o W(1,2,0,4) \o
    W(7,0,0,1) \o W(2,2,1,0) \o W(7,0,0,1) \o W(2,2,1,0) \o W(0,0,14,14) \o
    W(7,1,0,1) \o W(0,0,14,14)

ChainDepths == {1, 2, STACK_SIZE}

CallPrograms ==
    { ProgChain(d) : d \in ChainDepths } \cup { ProgSiblings, ProgNested, ProgCallRet }

InitCall == InitOf(CallPrograms)

\* step_forward calls until the program of calls has run; the history grows
\* up to CallSteps + 1 snapshots, enough for sixteen calls and their returns
CallNext ==
    /\ panicked = "none"
    /\ Len(history) <= CallSteps
    /\ LET r == step_forward(dbg, 0, overflow_checks)
       IN  history' = r.history /\ p' = r.p /\ panicked' = r.panic
    /\ UNCHANGED <<overflow_checks, app>>

SpecCall == InitCall /\ [][CallNext]_vars

\* The instruction that step k of the history executed
OpAt(k) == fetched(history[k]).op

\* Calls minus returns among the steps from..to
Nesting(from, to) ==
    Cardinality({ m \in from..to : OpAt(m) = "Call" }) -
    Cardinality({ m \in from..to : OpAt(m) = "Ret" })

\* Step j is the Call that the Ret of step k returns from: the steps between
\* them are Call/Ret pairs, properly nested, and other instructions
Matches(j, k) ==
    /\ j < k
    /\ OpAt(j) = "Call"
    /\ OpAt(k) = "Ret"
    /\ Nesting(j + 1, k - 1) = 0
    /\ \A m \in (j + 1)..(k - 1) : Nesting(j + 1, m) >= 0

\* C31: every Ret leaves PC at the address of its matching Call plus 2 and SP
\* at the value it had before that Call, whatever ran in between.
C31_CallRetLifo ==
    \A k \in Steps : \A j \in Steps :
        Matches(j, k) =>
            /\ history[k + 1].pc = history[j].pc + 2
            /\ history[k + 1].sp = history[j].sp

\* C31 witness: a Call has returned after a nested Call/Ret pair and another
\* instruction ran between it and its Ret.
C31_Witness ==
    \E k \in Steps :
        /\ Matches(1, k)
        /\ \E j \in 2..(k - 1) : \E m \in 2..(k - 1) : Matches(j, m)
        /\ \E m \in 2..(k - 1) : OpAt(m) = "Incr"
        /\ history[k + 1].pc = CODE_START + 2
        /\ history[k + 1].sp = 0

====
